---- MODULE Spec2Model ----
(***************************************************************************)
(* Restricted Boltzmann Machine of RBM_2.py: the parameter store, the      *)
(* activation engine, the contrastive-divergence estimator with its        *)
(* momentum update, the per-step schedule and the epoch/minibatch training *)
(* loop.  Tensor entries are exact rationals <<numerator, denominator>>.   *)
(***************************************************************************)
EXTENDS Integers, Sequences, FiniteSets, TLC

\* ------------------------------------------------------------------------
\* Bounds of the model
\* ------------------------------------------------------------------------
\* largest k given to the constructor, and largest Gibbs count of a direct call
MaxK == 2
\* largest num_epochs given to train, and largest epoch given to step
MaxEpochs == 6
\* largest batch_size given to train or to a DataLoader
MaxBatch == 2
\* a training step is taken only while every parameter entry n/d has
\* |n| <= MaxMag and d <= MaxMag (exact arithmetic stays within TLC's integers)
MaxMag == 2

\* ------------------------------------------------------------------------
\* Program constants
\* ------------------------------------------------------------------------
\* self.batch_size before any train call
DefaultBatchSize == 16
\* step: the momentum switches when epoch > 5
MomentumSwitchEpoch == 5
\* train: statistics are printed when epoch % 10 == 0
ReportEvery == 10
\* constructor arguments visible_units and hidden_units of the modelled machine
visible_units == 2
hidden_units == 1

\* ------------------------------------------------------------------------
\* Exact rational arithmetic (the float scalars of the tensors)
\* ------------------------------------------------------------------------
Abs(x) == IF x < 0 THEN -x ELSE x

RECURSIVE Gcd(_, _)
Gcd(a, b) == IF b = 0 THEN a ELSE Gcd(b, a % b)

Rat(n, d) ==
    LET g == Gcd(Abs(n), Abs(d))
        s == IF d < 0 THEN -1 ELSE 1
    IN  <<(s * n) \div g, (s * d) \div g>>

Zero == <<0, 1>>
One == <<1, 1>>
Half == <<1, 2>>

RAdd(a, b) == Rat(a[1] * b[2] + b[1] * a[2], a[2] * b[2])
RSub(a, b) == Rat(a[1] * b[2] - b[1] * a[2], a[2] * b[2])
RMul(a, b) == Rat(a[1] * b[1], a[2] * b[2])
RDiv(a, b) == Rat(a[1] * b[2], a[2] * b[1])
RGeq(a, b) == a[1] * b[2] >= b[1] * a[2]
RAbs(a) == <<Abs(a[1]), a[2]>>
RInt(n) == <<n, 1>>

\* ------------------------------------------------------------------------
\* Tensors: a vector is a sequence of rationals, a matrix a sequence of rows
\* ------------------------------------------------------------------------
\* the sequence <<Op(1), ..., Op(n)>>, built entry by entry
RECURSIVE Tab(_, _)
Tab(Op(_), n) == IF n = 0 THEN <<>> ELSE Append(Tab(Op, n - 1), Op(n))

RECURSIVE SumSeq(_)
SumSeq(s) == IF s = <<>> THEN Zero ELSE RAdd(s[1], SumSeq(Tail(s)))

NRows(A) == Len(A)
Zeros(n) == Tab(LAMBDA j : Zero, n)
ZerosMat(r, c) == Tab(LAMBDA i : Zeros(c), r)

\* torch.matmul(A, B) with B of shape (inner, cols)
MatMul(A, B, cols) ==
    Tab(LAMBDA i :
          Tab(LAMBDA j : SumSeq(Tab(LAMBDA l : RMul(A[i][l], B[l][j]), Len(B))), cols),
        Len(A))

\* A.t() for A of shape (rows, cols)
Transpose(A, cols) == Tab(LAMBDA j : Tab(LAMBDA i : A[i][j], Len(A)), cols)

\* torch.add(A, bias): the bias vector is broadcast over the rows
AddBias(A, bias) == Tab(LAMBDA i : Tab(LAMBDA j : RAdd(A[i][j], bias[j]), Len(bias)), Len(A))

\* F.relu
Relu(A) == Tab(LAMBDA i : Tab(LAMBDA j : IF A[i][j][1] > 0 THEN A[i][j] ELSE Zero, Len(A[i])), Len(A))

MatSub(A, B) == Tab(LAMBDA i : Tab(LAMBDA j : RSub(A[i][j], B[i][j]), Len(A[i])), Len(A))
MatAdd(A, B) == Tab(LAMBDA i : Tab(LAMBDA j : RAdd(A[i][j], B[i][j]), Len(A[i])), Len(A))
MatScale(c, A) == Tab(LAMBDA i : Tab(LAMBDA j : RMul(c, A[i][j]), Len(A[i])), Len(A))
VecAdd(a, b) == Tab(LAMBDA j : RAdd(a[j], b[j]), Len(a))
VecScale(c, a) == Tab(LAMBDA j : RMul(c, a[j]), Len(a))

\* torch.sum(A, dim=0): one entry per column, summed over the rows
SumDim0(A, cols) == Tab(LAMBDA j : SumSeq(Tab(LAMBDA i : A[i][j], Len(A))), cols)

\* torch.mean of a vector
Mean(a) == RDiv(SumSeq(a), RInt(Len(a)))

\* torch.sum(torch.abs(A)) of a matrix
SumAbs(A) == SumSeq(Tab(LAMBDA i : SumSeq(Tab(LAMBDA j : RAbs(A[i][j]), Len(A[i]))), Len(A)))

\* ------------------------------------------------------------------------
\* State
\* ------------------------------------------------------------------------
VARIABLES
    \* fields of the RBM object
    k, learning_rate, learning_rate_decay, weight_decay, momentum,
    final_momentum, increase_to_cd_k, batch_size,
    W, h_bias, v_bias, v_bias_update, h_bias_update, grad_update,
    \* the running call: position, and the arguments and loop locals of train
    pc, train_loader, num_epochs, epoch, i, cost_, grad_,
    \* the call being answered: its name and arguments, how it ended, the
    \* last run of contrastive_divergence in it, what forward or reconstruct
    \* returned, and what train printed
    last, outcome, cd, ret, report,
    \* history: some step with epoch > 5 has run
    switched

hyper == <<k, learning_rate, learning_rate_decay, weight_decay, final_momentum, increase_to_cd_k>>
params == <<W, h_bias, v_bias, v_bias_update, h_bias_update, grad_update>>
locals == <<train_loader, num_epochs, epoch, i, cost_, grad_>>
vars == <<hyper, params, momentum, batch_size, pc, locals, last, outcome, cd, ret, report, switched>>

\* ------------------------------------------------------------------------
\* Inputs
\* ------------------------------------------------------------------------
\* values torch.rand_like can return, all in [0, 1)
UValues == {Zero, Half}

\* the draws of a loop of n iterations, one per iteration (all of them equal)
Draws(n) == {Tab(LAMBDA j : u, IF n > 0 THEN n ELSE 0) : u \in UValues}

\* the dataset handed to train: three rows of visible_units binary features
Datasets == { << <<One, Zero>>, <<One, One>>, <<Zero, One>> >> }

\* DataLoader(dataset, batch_size=bs): consecutive chunks, the last one may be short
Chunks(ds, bs) ==
    Tab(LAMBDA b : SubSeq(ds, (b - 1) * bs + 1, IF b * bs < Len(ds) THEN b * bs ELSE Len(ds)),
        (Len(ds) + bs - 1) \div bs)

\* what train can be given: a raw dataset, or a DataLoader with its own batch size
Loaders ==
    {[is_loader |-> FALSE, data |-> ds, bs |-> 0] : ds \in Datasets}
    \cup {[is_loader |-> TRUE, data |-> ds, bs |-> b] : ds \in Datasets, b \in 1..MaxBatch}

\* the batches calls are made with
Batches == UNION {{Chunks(ds, b)[n] : n \in 1..Len(Chunks(ds, b))} : ds \in Datasets, b \in 1..MaxBatch}

\* the num_epochs train is called with: no epoch, one epoch, the longest run
NumEpochs == {0, 1, MaxEpochs}

InitialMomentum == Half
FinalMomentum == <<9, 10>>
InitialWeights == { << <<Half>>, <<Zero>> >> }

\* ------------------------------------------------------------------------
\* Activation engine
\* ------------------------------------------------------------------------
\* a tensor of the shape of A filled with the draw u
RandLike(A, u) == Tab(LAMBDA r : Tab(LAMBDA c : u, Len(A[r])), Len(A))

\* (prob >= torch.rand_like(prob)).float()
sampling(prob, rand) ==
    Tab(LAMBDA r :
          Tab(LAMBDA c : IF RGeq(prob[r][c], rand[r][c]) THEN One ELSE Zero, Len(prob[r])),
        Len(prob))

HiddenProb(X) == Relu(AddBias(MatMul(X, W, hidden_units), h_bias))
VisibleProb(X) == Relu(AddBias(MatMul(X, Transpose(W, hidden_units), visible_units), v_bias))

\* <<X_prob, sample_X_prob>>, the sample drawn with u
to_hidden(X, u) ==
    CHOOSE r \in {<<p, sampling(p, RandLike(p, u))>> : p \in {HiddenProb(X)}} : TRUE

to_visible(X, u) ==
    CHOOSE r \in {<<p, sampling(p, RandLike(p, u))>> : p \in {VisibleProb(X)}} : TRUE

\* ------------------------------------------------------------------------
\* Contrastive divergence
\* ------------------------------------------------------------------------
\* the negative-phase loop: us holds one draw per iteration; the result is
\* <<visible_probabilities, hidden_probabilities>> of the last iteration,
\* or <<>> when the loop body never ran (the names stay unbound)
RECURSIVE GibbsLoop(_, _, _)
GibbsLoop(hidden_activations, us, acc) ==
    IF us = <<>> THEN acc
    ELSE LET vis == to_visible(hidden_activations, us[1])
             hid == to_hidden(vis[1], us[1])
         IN  GibbsLoop(hid[2], Tail(us), <<vis[1], hid[1]>>)

\* g = positive_associations - negative_associations
Gradient(input_data, pos_hid, neg_vis, neg_hid) ==
    MatSub(MatMul(Transpose(input_data, visible_units), pos_hid, hidden_units),
           MatMul(Transpose(neg_vis, visible_units), neg_hid, hidden_units))

\* the three accumulators after the momentum blend, normalised by self.batch_size
Accumulators(input_data, pos_hid, neg_vis, neg_hid, lr, m) ==
    [grad_update |->
        MatAdd(MatScale(m, grad_update),
               MatScale(lr, MatSub(MatScale(RDiv(One, RInt(batch_size)),
                                            Gradient(input_data, pos_hid, neg_vis, neg_hid)),
                                   MatScale(weight_decay, W)))),
     v_bias_update |->
        VecAdd(VecScale(m, v_bias_update),
               VecScale(RDiv(lr, RInt(batch_size)),
                        SumDim0(MatSub(input_data, neg_vis), visible_units))),
     h_bias_update |->
        VecAdd(VecScale(m, h_bias_update),
               VecScale(RDiv(lr, RInt(batch_size)),
                        SumDim0(MatSub(pos_hid, neg_hid), hidden_units)))]

Square(d) == Tab(LAMBDA r : Tab(LAMBDA c : RMul(d[r][c], d[r][c]), Len(d[r])), Len(d))

\* torch.mean(torch.sum((input_data - negative_visible_probabilities) ** 2, dim=0))
ReconstructionError(input_data, neg_vis) ==
    Mean(SumDim0(Square(MatSub(input_data, neg_vis)), visible_units))

NoCD ==
    [ran |-> FALSE, raised |-> FALSE, input |-> <<>>, training |-> FALSE, n |-> 0,
     lr |-> Zero, m |-> Zero, batch_size |-> 0, pos_hid |-> <<>>, neg_vis |-> <<>>,
     neg_hid |-> <<>>, error |-> Zero, grad |-> Zero]

\* contrastive_divergence with the "if training:" test lost: it always updates
contrastive_divergence_always_updates(input_data, training, lr, m, u0, us) ==
    \E pos \in {to_hidden(input_data, u0)} :
      \E neg \in {GibbsLoop(pos[2], us, <<>>)} :
        IF neg = <<>>
        THEN /\ cd' = [NoCD EXCEPT !.ran = TRUE, !.raised = TRUE, !.input = input_data,
                                   !.training = training, !.n = Len(us), !.lr = lr, !.m = m,
                                   !.batch_size = batch_size, !.pos_hid = pos[1]]
             /\ UNCHANGED params
        ELSE \E acc \in {Accumulators(input_data, pos[1], neg[1], neg[2], lr, m)} :
               /\ grad_update' = acc.grad_update
               /\ v_bias_update' = acc.v_bias_update
               /\ h_bias_update' = acc.h_bias_update
               /\ W' = MatAdd(W, acc.grad_update)
               /\ v_bias' = VecAdd(v_bias, acc.v_bias_update)
               /\ h_bias' = VecAdd(h_bias, acc.h_bias_update)
               /\ cd' = [ran |-> TRUE, raised |-> FALSE, input |-> input_data,
                         training |-> training, n |-> Len(us), lr |-> lr, m |-> m,
                         batch_size |-> batch_size, pos_hid |-> pos[1],
                         neg_vis |-> neg[1], neg_hid |-> neg[2],
                         error |-> ReconstructionError(input_data, neg[1]),
                         grad |-> SumAbs(grad_update')]

\* contrastive_divergence(input_data, training, n_gibbs_sampling_steps, lr) with
\* self.momentum = m at the call, u0 the draw of the positive phase and us the
\* draws of the n_gibbs_sampling_steps iterations of the negative phase
contrastive_divergence(input_data, training, lr, m, u0, us) ==
    \E pos \in {to_hidden(input_data, u0)} :
      \E neg \in {GibbsLoop(pos[2], us, <<>>)} :
        IF neg = <<>>
        THEN \* range() was empty: visible_probabilities is not bound
             /\ cd' = [NoCD EXCEPT !.ran = TRUE, !.raised = TRUE, !.input = input_data,
                                   !.training = training, !.n = Len(us), !.lr = lr, !.m = m,
                                   !.batch_size = batch_size, !.pos_hid = pos[1]]
             /\ UNCHANGED params
        ELSE \E acc \in {Accumulators(input_data, pos[1], neg[1], neg[2], lr, m)} :
               /\ IF training
                  THEN /\ grad_update' = acc.grad_update
                       /\ v_bias_update' = acc.v_bias_update
                       /\ h_bias_update' = acc.h_bias_update
                       /\ W' = MatAdd(W, acc.grad_update)
                       /\ v_bias' = VecAdd(v_bias, acc.v_bias_update)
                       /\ h_bias' = VecAdd(h_bias, acc.h_bias_update)
                  ELSE UNCHANGED params
               /\ cd' = [ran |-> TRUE, raised |-> FALSE, input |-> input_data,
                         training |-> training, n |-> Len(us), lr |-> lr, m |-> m,
                         batch_size |-> batch_size, pos_hid |-> pos[1],
                         neg_vis |-> neg[1], neg_hid |-> neg[2],
                         error |-> ReconstructionError(input_data, neg[1]),
                         grad |-> SumAbs(grad_update')]

\* ------------------------------------------------------------------------
\* The schedule of step
\* ------------------------------------------------------------------------
\* the ramp rounded down instead of up
GibbsStepsFloor(increase, kk, ep, ne) ==
    IF increase THEN (ep * kk) \div ne ELSE kk

\* int(math.ceil((epoch / num_epochs) * k)) when increase_to_cd_k, else k
GibbsSteps(increase, kk, ep, ne) ==
    IF increase THEN -((-(ep * kk)) \div ne) ELSE kk

n_gibbs_sampling_steps(ep, ne) == GibbsSteps(increase_to_cd_k, k, ep, ne)

\* the decay taken with the epoch counted from 0
DecayedRateOffByOne(decay, rate, ep) ==
    IF decay THEN RDiv(rate, RInt(ep + 1)) ELSE rate

\* learning_rate / epoch when learning_rate_decay, else learning_rate
DecayedRate(decay, rate, ep) ==
    IF decay THEN RDiv(rate, RInt(ep)) ELSE rate

step_lr(ep) == DecayedRate(learning_rate_decay, learning_rate, ep)

\* the switch taken one epoch late
step_momentum_late(ep) ==
    IF ep > MomentumSwitchEpoch + 1 THEN final_momentum ELSE momentum

\* the momentum recomputed from the epoch at every step
step_momentum_reverting(ep) ==
    IF ep > MomentumSwitchEpoch THEN final_momentum ELSE InitialMomentum

\* self.momentum after "if epoch > 5: self.momentum = self.final_momentum"
step_momentum(ep) ==
    IF ep > MomentumSwitchEpoch THEN final_momentum ELSE momentum

\* every parameter entry is small enough for the next update to be computed
Small(q) == Abs(q[1]) <= MaxMag /\ q[2] <= MaxMag
Bounded ==
    /\ \A r \in 1..visible_units :
          /\ Small(v_bias[r]) /\ Small(v_bias_update[r])
          /\ \A c \in 1..hidden_units : Small(W[r][c]) /\ Small(grad_update[r][c])
    /\ \A c \in 1..hidden_units : Small(h_bias[c]) /\ Small(h_bias_update[c])

NoCall == [op |-> "none", epoch |-> 0, num_epochs |-> 0]

\* step(input_data, epoch, num_epochs); us are the draws of its Gibbs iterations
step(input_data, ep, ne, u0, us) ==
    /\ Bounded
    /\ \E lr \in {step_lr(ep)}, m \in {step_momentum(ep)} :
         /\ momentum' = m
         /\ contrastive_divergence(input_data, TRUE, lr, m, u0, us)
    /\ switched' = (switched \/ ep > MomentumSwitchEpoch)
    /\ last' = [op |-> "step", epoch |-> ep, num_epochs |-> ne]

\* ------------------------------------------------------------------------
\* Construction
\* ------------------------------------------------------------------------
\* __init__: no argument is checked; zero biases and accumulators, batch_size 16
Init ==
    /\ k \in 0..MaxK
    /\ learning_rate \in {Zero, One}
    /\ learning_rate_decay \in BOOLEAN
    /\ increase_to_cd_k \in BOOLEAN
    /\ weight_decay = Half
    /\ momentum = InitialMomentum
    /\ final_momentum = FinalMomentum
    /\ batch_size = DefaultBatchSize
    /\ W \in InitialWeights
    /\ h_bias = Zeros(hidden_units)
    /\ v_bias = Zeros(visible_units)
    /\ v_bias_update = Zeros(visible_units)
    /\ h_bias_update = Zeros(hidden_units)
    /\ grad_update = ZerosMat(visible_units, hidden_units)
    /\ pc = "idle"
    /\ train_loader = <<>>
    /\ num_epochs = 0
    /\ epoch = 0
    /\ i = 0
    /\ cost_ = <<>>
    /\ grad_ = <<>>
    /\ last = NoCall
    /\ outcome = "constructed"
    /\ cd = NoCD
    /\ ret = <<>>
    /\ report = <<>>
    /\ switched = FALSE

\* ------------------------------------------------------------------------
\* Calls made on the idle object
\* ------------------------------------------------------------------------
Ended == IF cd'.raised THEN "raised" ELSE "returned"

\* step(input_data, epoch, num_epochs) called directly
Step ==
    /\ pc = "idle"
    /\ pc' = "done"
    /\ \E input_data \in Batches, ep \in 1..MaxEpochs, u0 \in UValues :
         \E ne \in {MaxEpochs} :
           \E us \in Draws(n_gibbs_sampling_steps(ep, ne)) :
             step(input_data, ep, ne, u0, us)
    /\ outcome' = Ended
    /\ UNCHANGED <<hyper, batch_size, locals, ret, report>>

\* contrastive_divergence(data, False, n): evaluation with n Gibbs steps
Evaluate ==
    /\ pc = "idle"
    /\ pc' = "done"
    /\ Bounded
    /\ \E data \in Batches, n \in 1..MaxK, u0 \in UValues :
         \E us \in Draws(n) :
           contrastive_divergence(data, FALSE, <<1, 1000>>, momentum, u0, us)
    /\ last' = [NoCall EXCEPT !.op = "contrastive_divergence"]
    /\ outcome' = Ended
    /\ UNCHANGED <<hyper, momentum, batch_size, locals, ret, report, switched>>

\* reconstruction_error(data) = contrastive_divergence(data, False)
reconstruction_error ==
    /\ pc = "idle"
    /\ pc' = "done"
    /\ Bounded
    /\ \E data \in Batches, u0 \in UValues :
         \E us \in Draws(1) :
           contrastive_divergence(data, FALSE, <<1, 1000>>, momentum, u0, us)
    /\ last' = [NoCall EXCEPT !.op = "reconstruction_error"]
    /\ outcome' = Ended
    /\ UNCHANGED <<hyper, momentum, batch_size, locals, ret, report, switched>>

\* forward(input_data) = to_hidden(input_data)
forward ==
    /\ pc = "idle"
    /\ pc' = "done"
    /\ Bounded
    /\ \E input_data \in Batches, u0 \in UValues :
         \E r \in {to_hidden(input_data, u0)} :
           ret' = [prob |-> r[1], sample |-> r[2], u |-> u0]
    /\ last' = [NoCall EXCEPT !.op = "forward"]
    /\ outcome' = "returned"
    /\ UNCHANGED <<hyper, params, momentum, batch_size, locals, cd, report, switched>>

\* the loop of reconstruct: <<prob_v_, v>> after the draws us
RECURSIVE ReconstructLoop(_, _, _)
ReconstructLoop(v, us, acc) ==
    IF us = <<>> THEN acc
    ELSE LET hid == to_hidden(v, us[1])
             vis == to_visible(hid[1], us[1])
         IN  ReconstructLoop(vis[2], Tail(us), vis)

\* reconstruct(X, n_gibbs)
reconstruct ==
    /\ pc = "idle"
    /\ pc' = "done"
    /\ Bounded
    /\ \E X \in Batches, n \in 1..MaxK :
         \E us \in Draws(n) :
           \E r \in {ReconstructLoop(X, us, <<>>)} :
             ret' = [prob |-> r[1], sample |-> r[2], u |-> us[n]]
    /\ last' = [NoCall EXCEPT !.op = "reconstruct"]
    /\ outcome' = "returned"
    /\ UNCHANGED <<hyper, params, momentum, batch_size, locals, cd, report, switched>>

\* ------------------------------------------------------------------------
\* train(train_dataloader, num_epochs, batch_size)
\* ------------------------------------------------------------------------
\* a slot of torch.FloatTensor(n_batches, 1): not yet written (set = FALSE, the
\* memory holds whatever it held), or the value written, with the epoch and
\* batch index that wrote it and the number of writes since the allocation
Fresh == [set |-> FALSE, val |-> Zero, epoch |-> 0, batch |-> 0, writes |-> 0]
FloatTensor(n) == Tab(LAMBDA s : Fresh, n)

\* the position x[idx] of a tensor of n rows refers to (positions from 0):
\* a negative index counts from the end
PyIndex(idx, n) == IF idx < 0 THEN idx + n ELSE idx

\* the index kept inside the tensor by clamping instead of wrapping
slot_clamped(ii, n) == IF ii = 0 THEN 0 ELSE ii - 1

\* the slot the loop writes for batch i: cost_[i - 1]
slot(ii, n) == PyIndex(ii - 1, n)

Write(vec, pos, v) ==
    [vec EXCEPT ![pos + 1] = [set |-> TRUE, val |-> v, epoch |-> epoch, batch |-> i,
                              writes |-> @.writes + 1]]

\* the call: batch_size is stored, a raw dataset is wrapped in a DataLoader
train ==
    /\ pc = "idle"
    /\ Bounded
    /\ \E train_dataloader \in Loaders, ne \in NumEpochs, bs \in 1..MaxBatch :
         /\ batch_size' = bs
         /\ train_loader' = IF train_dataloader.is_loader
                            THEN Chunks(train_dataloader.data, train_dataloader.bs)
                            ELSE Chunks(train_dataloader.data, bs)
         /\ num_epochs' = ne
         /\ last' = [op |-> "train", epoch |-> 0, num_epochs |-> ne]
    /\ epoch' = 1
    /\ pc' = "epoch"
    /\ outcome' = "running"
    /\ UNCHANGED <<hyper, params, momentum, i, cost_, grad_, cd, ret, report, switched>>

\* for epoch in range(1, num_epochs + 1): the vectors of the epoch are allocated
TrainEpoch ==
    /\ pc = "epoch"
    /\ epoch <= num_epochs
    /\ cost_' = FloatTensor(Len(train_loader))
    /\ grad_' = FloatTensor(Len(train_loader))
    /\ i' = 0
    /\ pc' = "batch"
    /\ UNCHANGED <<hyper, params, momentum, batch_size, train_loader, num_epochs, epoch,
                   last, outcome, cd, ret, report, switched>>

\* for i, (batch, _) in enumerate(train_loader): one step, stored at [i - 1]
TrainBatch ==
    /\ pc = "batch"
    /\ i < Len(train_loader)
    /\ \E u0 \in UValues :
         \E us \in Draws(n_gibbs_sampling_steps(epoch, num_epochs)) :
           step(train_loader[i + 1], epoch, num_epochs, u0, us)
    /\ IF cd'.raised
       THEN /\ pc' = "done"
            /\ outcome' = "raised"
            /\ UNCHANGED <<i, cost_, grad_>>
       ELSE /\ cost_' = Write(cost_, slot(i, Len(train_loader)), cd'.error)
            /\ grad_' = Write(grad_, slot(i, Len(train_loader)), cd'.grad)
            /\ i' = i + 1
            /\ UNCHANGED <<pc, outcome>>
    /\ UNCHANGED <<hyper, batch_size, train_loader, num_epochs, epoch, ret, report>>

\* the end of the epoch: the statistics of cost_ and grad_ are printed every
\* tenth epoch (their mean and standard deviation are functions of the slots)
TrainEpochEnd ==
    /\ pc = "batch"
    /\ i = Len(train_loader)
    /\ report' = IF epoch % ReportEvery = 0
                 THEN [epoch |-> epoch, cost |-> cost_, grad |-> grad_]
                 ELSE report
    /\ epoch' = epoch + 1
    /\ pc' = "epoch"
    /\ UNCHANGED <<hyper, params, momentum, batch_size, train_loader, num_epochs, i,
                   cost_, grad_, last, outcome, cd, ret, switched>>

\* the loop is over: return
TrainReturn ==
    /\ pc = "epoch"
    /\ epoch > num_epochs
    /\ pc' = "done"
    /\ outcome' = "returned"
    /\ last' = [op |-> "train", epoch |-> 0, num_epochs |-> num_epochs]
    /\ UNCHANGED <<hyper, params, momentum, batch_size, locals, cd, ret, report, switched>>

\* the caller takes the result of the finished call; the locals of train are gone
Return ==
    /\ pc = "done"
    /\ pc' = "idle"
    /\ last' = NoCall
    /\ outcome' = "none"
    /\ cd' = NoCD
    /\ ret' = <<>>
    /\ train_loader' = <<>>
    /\ num_epochs' = 0
    /\ epoch' = 0
    /\ i' = 0
    /\ cost_' = <<>>
    /\ grad_' = <<>>
    /\ report' = <<>>
    /\ UNCHANGED <<hyper, params, momentum, batch_size, switched>>

Next ==
    \/ Step
    \/ Evaluate
    \/ reconstruction_error
    \/ forward
    \/ reconstruct
    \/ train
    \/ TrainEpoch
    \/ TrainBatch
    \/ TrainEpochEnd
    \/ TrainReturn
    \/ Return

Spec == Init /\ [][Next]_vars

\* ------------------------------------------------------------------------
\* Properties
\* ------------------------------------------------------------------------
\* the transition is a call of step: made directly, or by the loop of train
IsStep ==
    /\ last'.op = "step"
    /\ \/ pc = "idle" /\ pc' = "done"
       \/ pc = "batch" /\ (i' = i + 1 \/ pc' = "done")

\* the transition is an evaluation: contrastive_divergence(.., training=False)
\* called directly or through reconstruction_error
IsEvaluation ==
    /\ pc = "idle"
    /\ pc' = "done"
    /\ last'.op \in {"contrastive_divergence", "reconstruction_error"}

\* a finished, successful run of contrastive_divergence inside step
Stepped == last.op = "step" /\ cd.ran /\ ~cd.raised

\* C1: an evaluation (contrastive_divergence with training=False, for any batch
\* and any Gibbs count, and so reconstruction_error) leaves W, v_bias, h_bias,
\* the three accumulators, the momentum and batch_size as they were.
C1_EvaluationDoesNotMutate ==
    [][IsEvaluation => UNCHANGED <<params, momentum, batch_size>>]_vars

\* an evaluation has run on a trained model, whose accumulators are not zero
C1_Witness ==
    /\ pc = "done"
    /\ last.op = "reconstruction_error"
    /\ cd.ran /\ ~cd.raised /\ ~cd.training
    /\ grad_update # ZerosMat(visible_units, hidden_units)
    /\ v_bias_update # Zeros(visible_units)

\* C2 as stated: the momentum blended by a step is initial_momentum when the
\* step's epoch <= 5 and final_momentum when it is > 5, in every train call
\* and every direct step call.
C2_MomentumByEpochAlone ==
    Stepped => cd.m = IF last.epoch <= MomentumSwitchEpoch
                      THEN InitialMomentum ELSE final_momentum

\* C2 amended: the momentum blended by a step is final_momentum when the
\* step's epoch > 5 or an earlier step on the same object had epoch > 5
\* (switched, which counts the step itself), and initial_momentum otherwise.
C2_MomentumOfStep ==
    Stepped => cd.m = IF switched THEN final_momentum ELSE InitialMomentum

\* a step of an early epoch, after the switch, has blended final_momentum
C2_Witness ==
    /\ Stepped
    /\ last.epoch <= MomentumSwitchEpoch
    /\ switched
    /\ cd.m = final_momentum
    /\ cd.training

\* C3: the current momentum is initial_momentum until the first step with
\* epoch > 5 and final_momentum in every state after it, whatever is called.
C3_SwitchIsPermanent ==
    momentum = IF switched THEN final_momentum ELSE InitialMomentum

\* after the switch a step of the first epoch has run, and the momentum is
\* still final_momentum
C3_Witness ==
    /\ switched
    /\ pc = "done"
    /\ last.op = "step"
    /\ last.epoch = 1
    /\ momentum = final_momentum
    /\ momentum # InitialMomentum

\* C4: in every training step the accumulators are blended with the update
\* normalised by the number N of rows of the batch being processed:
\* lr * (g / N - weight_decay * W) and lr times the batch means.
C4_NormalisedByRows ==
    [][(IsStep /\ cd'.ran /\ ~cd'.raised) =>
         LET N == RInt(Len(cd'.input))
             g == Gradient(cd'.input, cd'.pos_hid, cd'.neg_vis, cd'.neg_hid)
         IN  /\ grad_update' =
                  MatAdd(MatScale(cd'.m, grad_update),
                         MatScale(cd'.lr, MatSub(MatScale(RDiv(One, N), g),
                                                 MatScale(weight_decay, W))))
             /\ v_bias_update' =
                  VecAdd(VecScale(cd'.m, v_bias_update),
                         VecScale(cd'.lr,
                                  VecScale(RDiv(One, N),
                                           SumDim0(MatSub(cd'.input, cd'.neg_vis),
                                                   visible_units))))
             /\ h_bias_update' =
                  VecAdd(VecScale(cd'.m, h_bias_update),
                         VecScale(cd'.lr,
                                  VecScale(RDiv(One, N),
                                           SumDim0(MatSub(cd'.pos_hid, cd'.neg_hid),
                                                   hidden_units))))]_vars

\* the sum of all entries of a matrix
SumAll(A) == SumSeq(Tab(LAMBDA r : SumSeq(A[r]), Len(A)))

\* C5: the reconstruction error returned for a batch of N rows is the sum over
\* all elements of (V0 - P_v)^2 divided by N.
C5_ErrorIsMeanOverRows ==
    (cd.ran /\ ~cd.raised) =>
        cd.error = RDiv(SumAll(Square(MatSub(cd.input, cd.neg_vis))), RInt(Len(cd.input)))

\* C6: every sampled element is 0.0 or 1.0; an element with p = 0.0 is sampled
\* as 0.0 for every draw in [0, 1), one with p >= 1.0 as 1.0.
C6_SamplingAtTheExtremes ==
    last.op = "forward" =>
        \A r \in 1..Len(ret.prob) : \A c \in 1..Len(ret.prob[r]) :
            /\ ret.sample[r][c] \in {Zero, One}
            /\ ret.prob[r][c] = Zero => ret.sample[r][c] = Zero
            /\ RGeq(ret.prob[r][c], One) => ret.sample[r][c] = One

\* the least integer c with c * ne >= ep * kk
Ceiling(kk, ep, ne) == CHOOSE c \in 0..kk : c * ne >= ep * kk /\ (c - 1) * ne < ep * kk

\* C7: the Gibbs count of a step is ceil((epoch / num_epochs) * k) when
\* increase_to_cd_k is set and k otherwise; for k >= 1 and
\* 1 <= epoch <= num_epochs it lies in 1..k, does not decrease with the epoch
\* and is k at the last epoch (k=4, num_epochs=10, epoch=3 gives 2), so the
\* negative phase runs at least once.
C7_GibbsRamp ==
    /\ (last.op = "step" /\ cd.ran) =>
          /\ cd.n = IF increase_to_cd_k THEN Ceiling(k, last.epoch, last.num_epochs) ELSE k
          /\ k >= 1 => /\ 1 <= cd.n /\ cd.n <= k
                       /\ ~cd.raised
                       /\ last.epoch = last.num_epochs => cd.n = k
    /\ \A ne \in 1..MaxEpochs : \A e1 \in 1..ne : \A e2 \in e1..ne :
          n_gibbs_sampling_steps(e1, ne) <= n_gibbs_sampling_steps(e2, ne)
    /\ GibbsSteps(TRUE, 4, 3, 10) = 2

\* a step of a ramping machine has run fewer Gibbs iterations than k
C7_Witness ==
    /\ Stepped
    /\ increase_to_cd_k
    /\ k >= 2
    /\ cd.n >= 1
    /\ cd.n < k

\* C8: a constructor given a non-positive k, and a train call given a
\* non-positive num_epochs, end in an error, before any step runs.
C8_InvalidRejected ==
    /\ outcome = "constructed" => k >= 1
    /\ (last.op = "train" /\ last.num_epochs <= 0) => outcome = "raised"

\* C9: every training step passes learning_rate / epoch to the estimator when
\* learning_rate_decay is set (0.01 at epoch 4 gives 0.0025) and learning_rate
\* otherwise, and no step changes the stored learning_rate.
C9_LearningRate ==
    [][/\ learning_rate' = learning_rate
       /\ (IsStep /\ cd'.ran) =>
             IF learning_rate_decay
             THEN RMul(cd'.lr, RInt(last'.epoch)) = learning_rate
             ELSE cd'.lr = learning_rate
       /\ DecayedRate(TRUE, <<1, 100>>, 4) = Rat(25, 10000)]_vars

\* a decaying machine has taken a step at epoch 4 with a quarter of its rate
C9_Witness ==
    /\ Stepped
    /\ learning_rate_decay
    /\ learning_rate = One
    /\ last.epoch = 4
    /\ cd.lr = <<1, 4>>

\* the slots of a per-epoch vector: each written once, in this epoch, slot s
\* (counted from 1) by the batch whose index is s modulo the number of batches
WrittenOnce(vec) ==
    \A s \in 1..Len(vec) :
        /\ vec[s].set
        /\ vec[s].writes = 1
        /\ vec[s].epoch = epoch
        /\ vec[s].batch = s % Len(vec)

\* C10: in every epoch the loop steps once per batch in the loader's order, and
\* at the end of the epoch every slot of cost_ and grad_ has been written
\* exactly once, in that epoch; no slot ever holds a value of another epoch.
C10_SlotsWrittenOnce ==
    pc = "batch" =>
        /\ Len(cost_) = Len(train_loader) /\ Len(grad_) = Len(train_loader)
        /\ i = Len(train_loader) => WrittenOnce(cost_) /\ WrittenOnce(grad_)
        /\ \A s \in 1..Len(cost_) :
              /\ cost_[s].set => cost_[s].epoch = epoch /\ cost_[s].writes = 1
              /\ grad_[s].set => grad_[s].epoch = epoch /\ grad_[s].writes = 1
        /\ Cardinality({s \in 1..Len(cost_) : cost_[s].set}) = i
        /\ i > 0 => cd.input = train_loader[i] /\ last.epoch = epoch

\* a later epoch of several batches has ended
C10_Witness ==
    /\ pc = "batch"
    /\ Len(train_loader) >= 2
    /\ i = Len(train_loader)
    /\ epoch >= 2
    /\ cost_[Len(train_loader)].batch = 0

====
